---- MODULE Spec2Model ----
(***************************************************************************)
(* Duck Game casino bot (src/commands/duckgame.py): the session state      *)
(* machine (ModeSelectView, DuckGameView), the JSON ledger data/bank.json  *)
(* and the asyncio BANK_LOCK that serialises its read-modify-write cycles. *)
(*                                                                         *)
(* Every coroutine (command handler or button callback) is a task; a step  *)
(* of the model is the code a task runs between two suspension points      *)
(* (await of a network call, or of the lock when it is taken).             *)
(*                                                                         *)
(* Money is counted in cents; multipliers in hundredths.  A float NaN      *)
(* (float("nan") is accepted by float()) is the value NaN.                 *)
(***************************************************************************)
EXTENDS Integers, Sequences, FiniteSets, Bags, TLC

\* ------------------------------------------------------------------ bounds
\* sessions ever created, where the handlers run one at a time
MaxSessions == 2
\* coroutines in flight at once, in the game of one panel
PlayTasks == 2
\* coroutines in flight at once and sessions ever created, where commands race
\* for the ledger lock
CmdTasks == 3
CmdSessions == 2
\* handlers in flight and sessions created in the release specification
RelTasks == 2
RelSessions == 2
\* handlers in flight and sessions created where the lock's progress is checked
LockTasks == 3
LockSessions == 2
\* handlers in flight and sessions created where the ledger file can fail
StoreTasks == 2
StoreSessions == 2
\* handlers in flight and sessions created while a game is played
RegTasks == 2
RegSessions == 2
\* earn commands in flight at once, and the seconds the clock is followed for
EarnTasks == 3
MaxElapsed == 7200
\* on_ready handlers in flight at once
ReadyTasks == 4
\* robbery attempts of one user that go past the cooldown check
MaxRobs == 1
\* the balance past which utils/bank.py is not followed
MaxBalance == 150000

\* ------------------------------------------------------------- float values
NaN == 0 - 999999999
ValueError == 0 - 999999998

FAdd(a, b) == IF a = NaN \/ b = NaN THEN NaN ELSE a + b
FSub(a, b) == IF a = NaN \/ b = NaN THEN NaN ELSE a - b
FLt(a, b) == a # NaN /\ b # NaN /\ a < b
FLe(a, b) == a # NaN /\ b # NaN /\ a <= b
FGt(a, b) == a # NaN /\ b # NaN /\ a > b
\* amount * multiplier, the multiplier in hundredths
FMul(a, m) == IF a = NaN THEN NaN ELSE (a * m) \div 100
\* wallet / 2
FHalf(a) == IF a = NaN THEN NaN ELSE a \div 2

\* float(amount) on the argument strings the players type
Literal == ("100" :> 10000) @@ ("300" :> 30000) @@ ("2000" :> 200000)
             @@ ("0" :> 0) @@ ("-50" :> 0 - 5000) @@ ("999.5" :> 99950)
ParseFloat(tok) ==
    IF tok \in DOMAIN Literal THEN Literal[tok]
    ELSE IF tok = "nan" THEN NaN
    ELSE ValueError

\* ------------------------------------------------------------------ ledger
Users == {1, 2}

DefaultWallet == 100000

DefaultRec == [wallet |-> DefaultWallet, bank |-> 0, game_active |-> FALSE,
               last_earn_ts |-> 0, wins |-> 0, losses |-> 0, last_rob_ts |-> 0]

\* bank_data.setdefault(user_id, {...default record...})
\* the record of u made anew on every reference
SetDefaultAnew(data, u) == [v \in DOMAIN data \cup {u} |-> IF v = u THEN DefaultRec ELSE data[v]]

SetDefault(data, u) == IF u \in DOMAIN data THEN data ELSE data @@ (u :> DefaultRec)

\* ------------------------------------------------------------- mode catalog
Modes == [Easy   |-> [lanes |-> 7, mult |-> <<100, 105, 115, 180, 210, 215, 230>>],
          Medium |-> [lanes |-> 5, mult |-> <<105, 125, 170, 200, 240>>],
          Hard   |-> [lanes |-> 3, mult |-> <<150, 225, 300>>]]

\* secrets.randbelow(max(1, total_lanes)): every value it can return
get_secure_hazard(total_lanes) ==
    0 .. ((IF total_lanes < 1 THEN 1 ELSE total_lanes) - 1)

\* The ledger file holds a record per user id; no user has the id NoUser, and
\* a file that cannot be opened or parsed is one that carries that key.
NoUser == 0

\* the users that have a record in the ledger file
Records(file) == DOMAIN file \ {NoUser}

\* load_bank falling back to the file as it is
load_bank_raw(file) == file

\* load_bank: the dataset of the file, the empty one when the file is missing
\* (the empty function already) or when reading it raises
load_bank(file) == IF NoUser \in DOMAIN file THEN <<>> ELSE file

\* no temporary file; otherwise the dataset being dumped and the number of
\* its records that reached the file
NoFile == [exists |-> FALSE, data |-> <<>>, done |-> 0]

\* what a file holds after n records of data were dumped into it: the dataset
\* once all of them were, a text that does not parse before that
Flushed(data, n) ==
    IF n >= Cardinality(DOMAIN data) THEN data
    ELSE [u \in {NoUser} \cup {v \in DOMAIN data : Cardinality({w \in DOMAIN data : w <= v}) <= n}
            |-> IF u = NoUser THEN DefaultRec ELSE data[u]]

\* no call of utils/bank.py yet; otherwise the function called, and its
\* result as a flag and a tuple of numbers
NoCall == [fn |-> "", ok |-> TRUE, val |-> <<>>]
Returned(fn, ok, val) == [fn |-> fn, ok |-> ok, val |-> val]

\* time.time() when the bot starts; no last_earn_ts of the ledger is near it
Epoch == 1700000000

VARIABLES
    bank,             \* the dataset persisted in data/bank.json: user -> record
    lockHeld,         \* BANK_LOCK is held by a task suspended inside "async with lock"
    lockQ,            \* BANK_LOCK's waiters, first come first served
    active_sessions,  \* DuckGame.active_sessions
    sessions,         \* one entry per stake deducted: the mode panel and its game views
    tasks,            \* bag of the suspended coroutines that are not waiting for the lock
    sent,             \* the last message the bot sent: its addressee and text
    tmp,              \* data/bank.json.tmp while _atomic_write_json runs; a handler
                      \* runs it to its end within one step and leaves no such file
    ret,              \* what the last call of a function of utils/bank.py returned
    time,             \* time.time(), in whole seconds
    has_announced,    \* bot.py's _has_announced
    announced         \* how many times the online message was sent to the channel

vars == <<bank, lockHeld, lockQ, active_sessions, sessions, tasks, sent, tmp, ret,
          time, has_announced, announced>>

\* the state no command of the cog and no callback of a view touches
apart == <<tmp, ret, time, has_announced, announced>>

\* ------------------------------------------------------------ board frames
\* the arguments generate_duck_game_image is called with: the duck's position
\* and the hazard lane to draw (0 - 1: none)
generate_duck_game_image(position, hazard_pos) ==
    [position |-> position, hazard_pos |-> hazard_pos]

\* the hazard lane drawn on every frame
FrameRevealing(branch, position, hazard_pos) ==
    generate_duck_game_image(position, hazard_pos)

\* the frame each branch of the callbacks renders: the first board, the
\* finish, the crash, the safe move and the cash-out
Frame(branch, position, hazard_pos) ==
    IF branch = "crash"
    THEN generate_duck_game_image(position, hazard_pos)
    ELSE generate_duck_game_image(position, 0 - 1)

\* ----------------------------------------------------------------- tasks
Task(kind, pc, user) ==
    [kind |-> kind, pc |-> pc, user |-> user, sess |-> 0, view |-> 0,
     tok |-> "", amount |-> 0, branch |-> "", after_wallet |-> 0, show |-> 0,
     frame |-> generate_duck_game_image(0 - 1, 0 - 1), ticket |-> 0]

Running == BagToSet(tasks)
InFlight == BagCardinality(tasks) + Len(lockQ)
Spawn(b, t) == b (+) SetToBag({t})
Drop(b, t) == b (-) SetToBag({t})
Become(b, t, u) == Spawn(Drop(b, t), u)

\* ctx.send(...) / interaction.followup.send(...)
Message(u, text) == [to |-> u, text |-> text]

\* the lock never waited for
LockIgnored == TRUE

\* "async with lock" finds the lock free: no holder and no waiter
LockFree == ~lockHeld /\ lockQ = <<>>
\* "async with lock" when the lock is not free: the task waits in line
\* (asyncio.Lock wakes its waiters in the order they came; ticket tells a
\* waiter from the one before it in line)
Enqueue(t) ==
    IF LockFree THEN lockQ
    ELSE Append(lockQ, [t EXCEPT !.pc = "lock",
                                 !.ticket = IF lockQ = <<>> THEN 0
                                            ELSE 1 - lockQ[Len(lockQ)].ticket])
\* sessions whose stake deduction is decided but not yet written
PendingDucks == Cardinality({i \in 1..Len(lockQ) : lockQ[i].kind = "duck"})

Init ==
    /\ bank = <<>>
    /\ lockHeld = FALSE
    /\ lockQ = <<>>
    /\ active_sessions = {}
    /\ sessions = <<>>
    /\ tasks = EmptyBag
    /\ sent = Message(0, "")
    /\ tmp = NoFile
    /\ ret = NoCall
    /\ time = Epoch
    /\ has_announced = FALSE
    /\ announced = 0

\* ------------------------------------------- ModeSelectView, DuckGameView
\* ModeSelectView(ctx.author, amount, user_wallet, name) and the message it is
\* sent on: shown is the view the live message carries (-1 none, 0 the mode
\* panel, k the k-th game view of the session), enabled whether the buttons
\* are enabled on the message.
NewPanel(u, amount, wallet_after) ==
    [user |-> u, amount |-> amount, wallet_after |-> wallet_after,
     wallet_before |-> FAdd(wallet_after, amount), started |-> FALSE,
     views |-> <<>>, shown |-> 0, enabled |-> TRUE]

\* the start position not taken over: the view starts before the first lane
NewViewAtStart(user, amount, wallet_before, wallet_after, multiplier, multipliers, total_lanes, hazard_pos, start_position) ==
    [user |-> user, amount |-> amount, position |-> 0 - 1,
     hazard_pos |-> hazard_pos, wallet_before |-> wallet_before,
     wallet_after |-> wallet_after, multiplier |-> multiplier,
     multipliers |-> multipliers, total_lanes |-> total_lanes, ended |-> FALSE,
     session_wallet |-> amount, stop |-> FALSE]

\* the stop button added to every view
NewViewWithStop(user, amount, wallet_before, wallet_after, multiplier, multipliers, total_lanes, hazard_pos, start_position) ==
    LET m == IF 0 <= start_position /\ start_position < Len(multipliers)
             THEN multipliers[start_position + 1] ELSE multiplier
    IN [user |-> user, amount |-> amount, position |-> start_position,
        hazard_pos |-> hazard_pos, wallet_before |-> wallet_before,
        wallet_after |-> wallet_after, multiplier |-> m,
        multipliers |-> multipliers, total_lanes |-> total_lanes, ended |-> FALSE,
        session_wallet |-> IF start_position >= 0 THEN FMul(amount, m) ELSE amount,
        stop |-> TRUE]

\* the winnings so far taken for the stake
NewViewRestaked(user, amount, wallet_before, wallet_after, multiplier, multipliers, total_lanes, hazard_pos, start_position) ==
    LET m == IF 0 <= start_position /\ start_position < Len(multipliers)
             THEN multipliers[start_position + 1] ELSE multiplier
    IN [user |-> user, amount |-> FMul(amount, m), position |-> start_position,
        hazard_pos |-> hazard_pos, wallet_before |-> wallet_before,
        wallet_after |-> wallet_after, multiplier |-> m,
        multipliers |-> multipliers, total_lanes |-> total_lanes, ended |-> FALSE,
        session_wallet |-> IF start_position >= 0 THEN FMul(amount, m) ELSE amount,
        stop |-> start_position >= 0]

\* DuckGameView.__init__
NewView(user, amount, wallet_before, wallet_after, multiplier, multipliers, total_lanes, hazard_pos, start_position) ==
    LET m == IF 0 <= start_position /\ start_position < Len(multipliers)
             THEN multipliers[start_position + 1] ELSE multiplier
    IN [user |-> user, amount |-> amount, position |-> start_position,
        hazard_pos |-> hazard_pos, wallet_before |-> wallet_before,
        wallet_after |-> wallet_after, multiplier |-> m,
        multipliers |-> multipliers, total_lanes |-> total_lanes, ended |-> FALSE,
        session_wallet |-> IF start_position >= 0 THEN FMul(amount, m) ELSE amount,
        stop |-> start_position >= 0]

\* the view a button callback runs on
ViewOf(t) == sessions[t.sess].views[t.view]

\* msg.edit(view=...) lands: the message carries view k (0 - 1: no view)
Show(S, s, k, enabled) == [S EXCEPT ![s].shown = k, ![s].enabled = enabled]

\* ------------------------------------------------------------ duck_command
\* the amount the argument stands for: 'a' all, 'h' half, else float(amount)
AmountOf(tok, balance) ==
    IF tok = "a" THEN balance
    ELSE IF tok = "h" THEN FHalf(balance)
    ELSE ParseFloat(tok)

\* why duck_command refuses before it asks for the lock ("" if it does not)
DuckRefusal(rec, tok) ==
    LET amount == AmountOf(tok, rec.wallet)
    IN IF rec.game_active THEN "You already have an active game session."
       ELSE IF amount = ValueError THEN "Invalid bet amount."
       ELSE IF FLe(amount, 0) THEN "Bet must be greater than 0."
       ELSE IF FGt(amount, rec.wallet) THEN "You don't have enough funds to bet that amount."
       ELSE ""

\* the write without the flag
DuckWriteWalletOnly(fresh, u, amount) ==
    [fresh EXCEPT ![u].wallet = FSub(@, amount)]

\* the dataset duck_command writes: the stake deducted, the session marked active
DuckWrite(fresh, u, amount) ==
    [fresh EXCEPT ![u].wallet = FSub(@, amount), ![u].game_active = TRUE]

\* the funds not looked at again inside the lock
DuckLockedUnchecked(t) ==
    LET u == t.user
        fresh == SetDefault(load_bank(bank), u)
    IN /\ lockHeld' = FALSE
       /\ bank' = DuckWrite(fresh, u, t.amount)
       /\ active_sessions' = active_sessions \cup {u}
       /\ sessions' = Append(sessions, NewPanel(u, t.amount, bank'[u].wallet))
       /\ sent' = Message(u, "Choose a mode to begin:")
       /\ UNCHANGED tasks

\* the critical section of duck_command and the code after it
DuckLocked(t) ==
    LET u == t.user
        fresh == SetDefault(load_bank(bank), u)
    IN IF FLt(fresh[u].wallet, t.amount)
       THEN /\ lockHeld' = TRUE
            /\ tasks' = Spawn(tasks, [t EXCEPT !.pc = "send_locked"])
            /\ sent' = Message(u, "You no longer have enough funds to place that bet.")
            /\ UNCHANGED <<bank, active_sessions, sessions>>
       ELSE /\ lockHeld' = FALSE
            /\ bank' = DuckWrite(fresh, u, t.amount)
            /\ active_sessions' = active_sessions \cup {u}
            /\ sessions' = Append(sessions, NewPanel(u, t.amount, bank'[u].wallet))
            /\ sent' = Message(u, "Choose a mode to begin:")
            /\ UNCHANGED tasks

\* !duck <tok> by user u, up to its first suspension
DuckCommand(u, tok, maxTasks, maxSessions) ==
    /\ InFlight < maxTasks
    /\ UNCHANGED apart
    /\ LET rec == SetDefault(load_bank(bank), u)[u]
           t == [Task("duck", "run", u) EXCEPT !.tok = tok,
                                               !.amount = AmountOf(tok, rec.wallet)]
       IN IF DuckRefusal(rec, tok) # ""
          THEN /\ sent' = Message(u, DuckRefusal(rec, tok))
               /\ UNCHANGED <<bank, lockHeld, lockQ, active_sessions, sessions, tasks>>
          ELSE /\ Len(sessions) + PendingDucks < maxSessions
               /\ lockQ' = Enqueue(t)
               /\ IF LockFree
                  THEN DuckLocked(t)
                  ELSE UNCHANGED <<bank, lockHeld, active_sessions, sessions, tasks, sent>>

\* ------------------------------------------- deposit_command, withdraw_command
\* why the transfer is refused, inside the lock ("" if it is not)
TransferRefusal(balance, tok) ==
    LET amount == AmountOf(tok, balance)
    IN IF amount = ValueError THEN "Invalid amount."
       ELSE IF FLe(amount, 0) THEN "Please enter a valid amount."
       ELSE IF FGt(amount, balance) THEN "You do not have enough funds."
       ELSE ""

\* the critical section of deposit_command (wallet -> bank) and of
\* withdraw_command (bank -> wallet); a refusal is sent with the lock held
TransferLocked(t) ==
    LET u == t.user
        data == SetDefault(load_bank(bank), u)
        from == IF t.kind = "deposit" THEN data[u].wallet ELSE data[u].bank
        amount == AmountOf(t.tok, from)
    IN /\ UNCHANGED <<active_sessions, sessions>>
       /\ IF TransferRefusal(from, t.tok) # ""
          THEN /\ lockHeld' = TRUE
               /\ tasks' = Spawn(tasks, [t EXCEPT !.pc = "send_locked"])
               /\ sent' = Message(u, TransferRefusal(from, t.tok))
               /\ UNCHANGED bank
          ELSE /\ lockHeld' = FALSE
               /\ bank' = IF t.kind = "deposit"
                          THEN [data EXCEPT ![u].wallet = FSub(@, amount),
                                            ![u].bank = FAdd(@, amount)]
                          ELSE [data EXCEPT ![u].bank = FSub(@, amount),
                                            ![u].wallet = FAdd(@, amount)]
               /\ sent' = Message(u, IF t.kind = "deposit" THEN "deposited" ELSE "withdrew")
               /\ UNCHANGED tasks

\* !deposit <tok> or !withdraw <tok> by user u
TransferCommand(u, kind, tok, maxTasks) ==
    /\ InFlight < maxTasks
    /\ UNCHANGED apart
    /\ LET t == [Task(kind, "run", u) EXCEPT !.tok = tok]
       IN /\ lockQ' = Enqueue(t)
          /\ IF LockFree
             THEN TransferLocked(t)
             ELSE UNCHANGED <<bank, lockHeld, active_sessions, sessions, tasks, sent>>

\* ----------------------------------------------------- self_release_command
ReleaseMeLocked(t) ==
    /\ lockHeld' = FALSE
    /\ bank' = IF t.user \in DOMAIN load_bank(bank)
               THEN [load_bank(bank) EXCEPT ![t.user].game_active = FALSE] ELSE bank
    /\ active_sessions' = active_sessions \ {t.user}
    /\ sent' = Message(t.user, "You have been released from any stuck game session.")
    /\ UNCHANGED <<sessions, tasks>>

\* !release_me by user u
ReleaseMeCommand(u, maxTasks) ==
    /\ InFlight < maxTasks
    /\ UNCHANGED apart
    /\ LET t == Task("release_me", "run", u)
       IN /\ lockQ' = Enqueue(t)
          /\ IF LockFree
             THEN ReleaseMeLocked(t)
             ELSE UNCHANGED <<bank, lockHeld, active_sessions, sessions, tasks, sent>>

\* ---------------------------------------------------------- release_command
\* the users that carry the 'admin' role (_has_admin_role)
Admins == {2}
\* what MemberConverter makes of the argument; any other argument is a BadArgument
MemberOf == ("1" :> 1) @@ ("2" :> 2)

\* the registry left as it was
ReleaseLockedKeepsRegistry(t) ==
    /\ lockHeld' = FALSE
    /\ bank' = IF t.tok = "a"
               THEN [u \in DOMAIN load_bank(bank) |->
                        [load_bank(bank)[u] EXCEPT !.game_active = FALSE]]
               ELSE IF MemberOf[t.tok] \in DOMAIN load_bank(bank)
               THEN [load_bank(bank) EXCEPT ![MemberOf[t.tok]].game_active = FALSE]
               ELSE bank
    /\ sent' = Message(t.user, IF t.tok = "a"
                               THEN "Released all users from any stuck game sessions."
                               ELSE "Released from any stuck game session.")
    /\ UNCHANGED <<active_sessions, sessions, tasks>>

\* the critical section of release_command and the code after it
ReleaseLocked(t) ==
    /\ lockHeld' = FALSE
    /\ bank' = IF t.tok = "a"
               THEN [u \in DOMAIN load_bank(bank) |->
                        [load_bank(bank)[u] EXCEPT !.game_active = FALSE]]
               ELSE IF MemberOf[t.tok] \in DOMAIN load_bank(bank)
               THEN [load_bank(bank) EXCEPT ![MemberOf[t.tok]].game_active = FALSE]
               ELSE bank
    /\ active_sessions' = IF t.tok = "a" THEN {}
                          ELSE active_sessions \ {MemberOf[t.tok]}
    /\ sent' = Message(t.user, IF t.tok = "a"
                               THEN "Released all users from any stuck game sessions."
                               ELSE "Released from any stuck game session.")
    /\ UNCHANGED <<sessions, tasks>>

\* !release <member_or_all> by user u
ReleaseCommand(u, member_or_all, maxTasks) ==
    /\ InFlight < maxTasks
    /\ UNCHANGED apart
    /\ LET t == [Task("release", "run", u) EXCEPT !.tok = member_or_all]
       IN IF u \notin Admins
          THEN /\ sent' = Message(u, "You need the 'admin' role to use this command.")
               /\ UNCHANGED <<bank, lockHeld, lockQ, active_sessions, sessions, tasks>>
          ELSE IF member_or_all # "a" /\ member_or_all \notin DOMAIN MemberOf
          THEN /\ sent' = Message(u, "Invalid user mention or ID.")
               /\ UNCHANGED <<bank, lockHeld, lockQ, active_sessions, sessions, tasks>>
          ELSE /\ lockQ' = Enqueue(t)
               /\ IF LockFree
                  THEN ReleaseLocked(t)
                  ELSE UNCHANGED <<bank, lockHeld, active_sessions, sessions, tasks, sent>>

\* -------------------------------------------------------- sendmoney_command
\* the critical section of sendmoney_command (t.sess is the receiver) and the
\* message sent after it; the refusal is sent with the lock held
SendMoneyLocked(t) ==
    LET sender == t.user
        receiver == t.sess
        bank_data == SetDefault(SetDefault(load_bank(bank), sender), receiver)
    IN /\ UNCHANGED <<active_sessions, sessions>>
       /\ IF FLt(bank_data[sender].wallet, t.amount)
          THEN /\ lockHeld' = TRUE
               /\ tasks' = Spawn(tasks, [t EXCEPT !.pc = "send_locked"])
               /\ sent' = Message(sender, "You don't have enough funds to send that amount.")
               /\ UNCHANGED bank
          ELSE /\ lockHeld' = FALSE
               /\ bank' = [bank_data EXCEPT ![sender].wallet = FSub(@, t.amount),
                                            ![receiver].wallet = FAdd(@, t.amount)]
               /\ sent' = Message(sender, "sent")
               /\ UNCHANGED tasks

\* !sendmoney <member> <tok> by user u; a tok that is no float never reaches
\* the handler (the converter raises BadArgument)
SendMoneyCommand(u, member, tok, maxTasks) ==
    /\ InFlight < maxTasks
    /\ UNCHANGED apart
    /\ ParseFloat(tok) # ValueError
    /\ LET t == [Task("sendmoney", "run", u) EXCEPT !.sess = member, !.tok = tok,
                                                    !.amount = ParseFloat(tok)]
       IN IF member = u
          THEN /\ sent' = Message(u, "You cannot send money to yourself.")
               /\ UNCHANGED <<bank, lockHeld, lockQ, active_sessions, sessions, tasks>>
          ELSE IF FLe(t.amount, 0)
          THEN /\ sent' = Message(u, "Amount must be greater than 0.")
               /\ UNCHANGED <<bank, lockHeld, lockQ, active_sessions, sessions, tasks>>
          ELSE /\ lockQ' = Enqueue(t)
               /\ IF LockFree
                  THEN SendMoneyLocked(t)
                  ELSE UNCHANGED <<bank, lockHeld, active_sessions, sessions, tasks, sent>>

\* ---------------------------------------------------------- balance_command
\* the critical section of balance_command and the message sent after it
BalanceLocked(t) ==
    LET bank_data == load_bank(bank)
    IN /\ lockHeld' = FALSE
       /\ bank' = IF t.user \in DOMAIN bank_data THEN bank
                  ELSE bank_data @@ (t.user :> DefaultRec)
       /\ sent' = Message(t.user, "your current wallet balance is")
       /\ UNCHANGED <<active_sessions, sessions, tasks>>

\* !balance by user u
BalanceCommand(u, maxTasks) ==
    /\ InFlight < maxTasks
    /\ UNCHANGED apart
    /\ LET t == Task("balance", "run", u)
       IN /\ lockQ' = Enqueue(t)
          /\ IF LockFree
             THEN BalanceLocked(t)
             ELSE UNCHANGED <<bank, lockHeld, active_sessions, sessions, tasks, sent>>

\* ------------------------------------------------------------ earn_command
EARN_AMOUNT == 2000000
COOLDOWN_SECONDS == 3600

\* the cooldown not looked at
EarnLockedUnchecked(t) ==
    LET u == t.user
        bank_data == SetDefault(load_bank(bank), u)
    IN /\ lockHeld' = FALSE
       /\ bank' = [bank_data EXCEPT ![u].wallet = FAdd(@, EARN_AMOUNT),
                                    ![u].last_earn_ts = time]
       /\ sent' = Message(u, "you earned")
       /\ UNCHANGED <<active_sessions, sessions, tasks>>

\* the critical section of earn_command and the message after it
EarnLocked(t) ==
    LET u == t.user
        bank_data == SetDefault(load_bank(bank), u)
        now == time
        last_ts == bank_data[u].last_earn_ts
        remaining == last_ts + COOLDOWN_SECONDS - now
    IN IF remaining > 0
       THEN /\ lockHeld' = TRUE
            /\ tasks' = Spawn(tasks, [t EXCEPT !.pc = "send_locked"])
            /\ sent' = Message(u, "You need to wait before using !earn again.")
            /\ UNCHANGED <<bank, active_sessions, sessions>>
       ELSE /\ lockHeld' = FALSE
            /\ bank' = [bank_data EXCEPT ![u].wallet = FAdd(@, EARN_AMOUNT),
                                         ![u].last_earn_ts = now]
            /\ sent' = Message(u, "you earned")
            /\ UNCHANGED <<active_sessions, sessions, tasks>>

\* !earn by user u
EarnCommand(u, maxTasks) ==
    /\ InFlight < maxTasks
    /\ UNCHANGED apart
    /\ LET t == Task("earn", "run", u)
       IN /\ lockQ' = Enqueue(t)
          /\ IF LockFree
             THEN EarnLocked(t)
             ELSE UNCHANGED <<bank, lockHeld, active_sessions, sessions, tasks, sent>>

\* the clock moves on by d seconds
Tick(d) ==
    /\ time + d <= Epoch + MaxElapsed
    /\ time' = time + d
    /\ UNCHANGED <<bank, lockHeld, lockQ, active_sessions, sessions, tasks, sent,
                   tmp, ret, has_announced, announced>>

\* ------------------------------------------------------------------ bot.py
\* on_ready is dispatched; the announce channel is in the cache or it is not.
\* The handler runs up to its first await: fetch_channel, or channel.send.
OnReady(cached, maxTasks) ==
    /\ InFlight < maxTasks
    /\ ~has_announced
    /\ tasks' = Spawn(tasks, Task("on_ready", IF cached THEN "send" ELSE "fetch", NoUser))
    /\ UNCHANGED <<bank, lockHeld, lockQ, active_sessions, sessions, sent, tmp, ret,
                   time, has_announced, announced>>

\* on_ready is dispatched after the announcement: "if _has_announced: return"
OnReadyAgain ==
    /\ has_announced
    /\ UNCHANGED vars

\* fetch_channel returns the channel, or raises and leaves channel = None
Fetched(t, found) ==
    /\ t \in Running /\ t.kind = "on_ready" /\ t.pc = "fetch"
    /\ tasks' = IF found THEN Become(tasks, t, [t EXCEPT !.pc = "send"]) ELSE Drop(tasks, t)
    /\ UNCHANGED <<bank, lockHeld, lockQ, active_sessions, sessions, sent, tmp, ret,
                   time, has_announced, announced>>

\* channel.send returns, the message posted, and the flag is set; or it raises
Announced(t, posted) ==
    /\ t \in Running /\ t.kind = "on_ready" /\ t.pc = "send"
    /\ tasks' = Drop(tasks, t)
    /\ announced' = IF posted THEN announced + 1 ELSE announced
    /\ has_announced' = IF posted THEN TRUE ELSE has_announced
    /\ UNCHANGED <<bank, lockHeld, lockQ, active_sessions, sessions, sent, tmp, ret, time>>

\* ------------------------------------------------------------ utils/bank.py
\* _DEFAULT_USER
DEFAULT_USER == [wallet |-> 100000, bank |-> 0, game_active |-> FALSE,
                 last_earn_ts |-> 0, last_rob_ts |-> 0, wins |-> 0, losses |-> 0]

\* load_bank of utils/bank.py: the dataset of the file, the empty one when the
\* file was missing (it is created empty) or when reading it raises
utils_load_bank(file) == IF NoUser \in DOMAIN file THEN <<>> ELSE file

\* _ensure_user
ensure_user(data, uid) == IF uid \in DOMAIN data THEN data ELSE data @@ (uid :> DEFAULT_USER)

\* Each function below gives the file it leaves and the value it returns.
\* get_balances without the save
get_balances_unsaved(file, uid) ==
    LET data == ensure_user(utils_load_bank(file), uid)
    IN [file |-> file,
        ret |-> Returned("get_balances", TRUE, <<data[uid].wallet, data[uid].bank>>)]

get_balances(file, uid) ==
    LET data == ensure_user(utils_load_bank(file), uid)
    IN [file |-> data,
        ret |-> Returned("get_balances", TRUE, <<data[uid].wallet, data[uid].bank>>)]

\* adjust_wallet saving what it loaded before it gives up
adjust_wallet_saving(file, uid, delta, floor) ==
    LET data == ensure_user(utils_load_bank(file), uid)
        cur == data[uid].wallet
        new_val == FAdd(cur, delta)
    IN IF FLt(new_val, floor)
       THEN [file |-> data, ret |-> Returned("adjust_wallet", FALSE, <<cur>>)]
       ELSE [file |-> [data EXCEPT ![uid].wallet = new_val],
             ret |-> Returned("adjust_wallet", TRUE, <<new_val>>)]

adjust_wallet(file, uid, delta, floor) ==
    LET data == ensure_user(utils_load_bank(file), uid)
        cur == data[uid].wallet
        new_val == FAdd(cur, delta)
    IN IF FLt(new_val, floor)
       THEN [file |-> file, ret |-> Returned("adjust_wallet", FALSE, <<cur>>)]
       ELSE [file |-> [data EXCEPT ![uid].wallet = new_val],
             ret |-> Returned("adjust_wallet", TRUE, <<new_val>>)]

adjust_bank(file, uid, delta, floor) ==
    LET data == ensure_user(utils_load_bank(file), uid)
        cur == data[uid].bank
        new_val == FAdd(cur, delta)
    IN IF FLt(new_val, floor)
       THEN [file |-> file, ret |-> Returned("adjust_bank", FALSE, <<cur>>)]
       ELSE [file |-> [data EXCEPT ![uid].bank = new_val],
             ret |-> Returned("adjust_bank", TRUE, <<new_val>>)]

move_wallet_to_bank(file, uid, amount) ==
    LET data == ensure_user(utils_load_bank(file), uid)
    IN IF FLe(amount, 0) \/ FLt(data[uid].wallet, amount)
       THEN [file |-> file, ret |-> Returned("move_wallet_to_bank", FALSE, <<>>)]
       ELSE [file |-> [data EXCEPT ![uid].wallet = FSub(@, amount),
                                   ![uid].bank = FAdd(@, amount)],
             ret |-> Returned("move_wallet_to_bank", TRUE, <<>>)]

move_bank_to_wallet(file, uid, amount) ==
    LET data == ensure_user(utils_load_bank(file), uid)
    IN IF FLe(amount, 0) \/ FLt(data[uid].bank, amount)
       THEN [file |-> file, ret |-> Returned("move_bank_to_wallet", FALSE, <<>>)]
       ELSE [file |-> [data EXCEPT ![uid].bank = FSub(@, amount),
                                   ![uid].wallet = FAdd(@, amount)],
             ret |-> Returned("move_bank_to_wallet", TRUE, <<>>)]

\* a call of one of these functions, run to its end under _LOCK
Call(result) ==
    /\ bank' = result.file
    /\ ret' = result.ret
    /\ UNCHANGED <<time, has_announced, announced>>
    /\ \A u \in Records(bank') : bank'[u].wallet <= MaxBalance /\ bank'[u].bank <= MaxBalance
    /\ UNCHANGED <<lockHeld, lockQ, active_sessions, sessions, tasks, sent, tmp>>

\* -------------------------------------------------------------- rob_command
\* max(1.0, x) and min(x, y) as Python evaluates them
Max1(x) == IF FGt(x, 100) THEN x ELSE 100
Min(x, y) == IF FLt(y, x) THEN y ELSE x

\* the critical section of rob_command; t.branch is the coin (secrets.randbits),
\* t.amount the percentage stolen (secrets.randbelow(10) + 1), t.show whether
\* the cooldown of ninety minutes still runs. Timestamps count the attempts.
\* Every message of the section is sent with the lock held.
RobLocked(t) ==
    LET robber == t.user
        victim == t.sess
        data == SetDefault(SetDefault(load_bank(bank), robber), victim)
        robber_wallet == data[robber].wallet
        victim_wallet == data[victim].wallet
        stamped == [data EXCEPT ![robber].last_rob_ts = @ + 1]
        amount == Min(Max1(FMul(victim_wallet, t.amount)), victim_wallet)
        fine == Max1(FMul(robber_wallet, 5))
    IN /\ lockHeld' = TRUE
       /\ tasks' = Spawn(tasks, [t EXCEPT !.pc = "send_locked"])
       /\ UNCHANGED <<active_sessions, sessions>>
       /\ IF t.show = 1 /\ data[robber].last_rob_ts > 0
          THEN /\ sent' = Message(robber, "You need to wait before trying to rob again.")
               /\ UNCHANGED bank
          ELSE IF t.branch = "success"
          THEN IF FLe(victim_wallet, 0)
               THEN /\ bank' = stamped
                    /\ sent' = Message(robber, "has no money to steal.")
               ELSE /\ bank' = [stamped EXCEPT ![victim].wallet = FSub(victim_wallet, amount),
                                              ![robber].wallet = FAdd(robber_wallet, amount)]
                    /\ sent' = Message(robber, "successfully robbed")
          ELSE IF FLe(robber_wallet, 0)
               THEN /\ bank' = stamped
                    /\ sent' = Message(robber, "You got caught, but you had no money to fine.")
               ELSE /\ bank' = [stamped EXCEPT ![robber].wallet = FSub(robber_wallet, fine)]
                    /\ sent' = Message(robber, "was caught and was fined")

\* !rob <member> by user u
RobCommand(u, member, success, steal_pct, cooling, maxTasks) ==
    /\ InFlight < maxTasks
    /\ UNCHANGED apart
    /\ LET last == SetDefault(load_bank(bank), u)[u].last_rob_ts
       IN (cooling /\ last > 0) \/ last < MaxRobs
    /\ LET t == [Task("rob", "run", u) EXCEPT !.sess = member,
                        !.branch = IF success THEN "success" ELSE "caught",
                        !.amount = steal_pct,
                        !.show = IF cooling THEN 1 ELSE 0]
       IN IF member = u
          THEN /\ sent' = Message(u, "You can't rob yourself.")
               /\ UNCHANGED <<bank, lockHeld, lockQ, active_sessions, sessions, tasks>>
          ELSE /\ lockQ' = Enqueue(t)
               /\ IF LockFree
                  THEN RobLocked(t)
                  ELSE UNCHANGED <<bank, lockHeld, active_sessions, sessions, tasks, sent>>

\* ------------------------------------------------ ModeSelectView._launch_mode
\* a click on a mode button of session s's panel, by any user: the callback
\* starts and suspends in _ack
ModeClick(s, u, label, maxTasks) ==
    /\ InFlight < maxTasks
    /\ UNCHANGED apart
    /\ sessions[s].shown = 0 /\ sessions[s].enabled
    /\ tasks' = Spawn(tasks, [Task("mode", "ack", u) EXCEPT !.sess = s, !.tok = label])
    /\ UNCHANGED <<bank, lockHeld, lockQ, active_sessions, sessions, sent>>

\* "if self.started" left out: only the owner test remains
ModeCheckUnguarded(t) ==
    /\ t \in Running /\ t.kind = "mode" /\ t.pc = "ack"
    /\ UNCHANGED apart
    /\ LET p == sessions[t.sess]
       IN IF t.user # p.user
          THEN /\ sent' = Message(t.user, "You cannot choose a mode for someone else's game.")
               /\ tasks' = Drop(tasks, t)
               /\ UNCHANGED sessions
          ELSE /\ sessions' = [sessions EXCEPT ![t.sess].started = TRUE]
               /\ tasks' = Become(tasks, t, [t EXCEPT !.pc = "freeze"])
               /\ UNCHANGED sent
    /\ UNCHANGED <<bank, lockHeld, lockQ, active_sessions>>

\* _launch_mode from the acknowledgement to the edit that disables the panel
ModeCheck(t) ==
    /\ t \in Running /\ t.kind = "mode" /\ t.pc = "ack"
    /\ UNCHANGED apart
    /\ LET p == sessions[t.sess]
       IN IF p.started
          THEN /\ sent' = Message(t.user, IF t.user = p.user
                                          THEN "This game has already started."
                                          ELSE "You cannot choose a mode for someone else's game.")
               /\ tasks' = Drop(tasks, t)
               /\ UNCHANGED sessions
          ELSE IF t.user # p.user
          THEN /\ sent' = Message(t.user, "You cannot choose a mode for someone else's game.")
               /\ tasks' = Drop(tasks, t)
               /\ UNCHANGED sessions
          ELSE /\ sessions' = [sessions EXCEPT ![t.sess].started = TRUE]
               /\ tasks' = Become(tasks, t, [t EXCEPT !.pc = "freeze"])
               /\ UNCHANGED sent
    /\ UNCHANGED <<bank, lockHeld, lockQ, active_sessions>>

\* the mode's own lane count
FullRange(total_lanes) == total_lanes

\* two lanes too many
WideRange(total_lanes) == total_lanes + 1

\* the lane count handed to get_secure_hazard by _launch_mode
HazardRange(total_lanes) == total_lanes - 1

\* _launch_mode from the edit to _swap_with_embed: the hazard is drawn and the
\* first game view is built
ModeLaunch(t) ==
    /\ t \in Running /\ t.kind = "mode" /\ t.pc = "freeze"
    /\ UNCHANGED apart
    /\ LET p == sessions[t.sess]
           total_lanes == Modes[t.tok].lanes
           multipliers == Modes[t.tok].mult
       IN \E hazard_pos \in get_secure_hazard(HazardRange(total_lanes)) :
            /\ sessions' = [Show(sessions, t.sess, 0, FALSE) EXCEPT ![t.sess].views =
                               Append(@, NewView(p.user, p.amount, p.wallet_before,
                                                 p.wallet_after, 100, multipliers,
                                                 total_lanes, hazard_pos, 0 - 1))]
            /\ tasks' = Become(tasks, t, [t EXCEPT !.pc = "swap",
                                                   !.show = Len(p.views) + 1,
                                                   !.frame = Frame("mode", 0 - 1, hazard_pos)])
    /\ UNCHANGED <<bank, lockHeld, lockQ, active_sessions, sent>>

\* ---------------------------------------------------------- DuckGameView
\* the guard left out
NeverEnded(v) == FALSE

\* the guard of both callbacks: "if self.ended"
AlreadyEnded(v) == v.ended

\* a click on Forward (or on Stop, where the view has the button) of the game
\* view the message carries: the callback starts and suspends in _ack
ButtonClick(kind, s, u, maxTasks) ==
    /\ InFlight < maxTasks
    /\ UNCHANGED apart
    /\ sessions[s].shown > 0 /\ sessions[s].enabled
    /\ kind = "stop" => sessions[s].views[sessions[s].shown].stop
    /\ tasks' = Spawn(tasks, [Task(kind, "ack", u) EXCEPT !.sess = s,
                                                          !.view = sessions[s].shown])
    /\ UNCHANGED <<bank, lockHeld, lockQ, active_sessions, sessions, sent>>

\* the owner test left out
ButtonCheckAnyUser(t) ==
    /\ t \in Running /\ t.kind \in {"forward", "stop"} /\ t.pc = "ack"
    /\ UNCHANGED apart
    /\ IF AlreadyEnded(ViewOf(t))
       THEN /\ sent' = Message(t.user, "This game is already finished.")
            /\ tasks' = Drop(tasks, t)
       ELSE /\ tasks' = Become(tasks, t, [t EXCEPT !.pc = "freeze"])
            /\ UNCHANGED sent
    /\ UNCHANGED <<bank, lockHeld, lockQ, active_sessions, sessions>>

\* both callbacks from the acknowledgement to _freeze_message
ButtonCheck(t) ==
    /\ t \in Running /\ t.kind \in {"forward", "stop"} /\ t.pc = "ack"
    /\ UNCHANGED apart
    /\ IF AlreadyEnded(ViewOf(t))
       THEN /\ sent' = Message(t.user, "This game is already finished.")
            /\ tasks' = Drop(tasks, t)
       ELSE IF t.user # ViewOf(t).user
       THEN /\ sent' = Message(t.user, "You cannot control this game.")
            /\ tasks' = Drop(tasks, t)
       ELSE /\ tasks' = Become(tasks, t, [t EXCEPT !.pc = "freeze"])
            /\ UNCHANGED sent
    /\ UNCHANGED <<bank, lockHeld, lockQ, active_sessions, sessions>>

\* the payout forgotten
AfterWalletNoPayout(v, session_wallet) == FSub(v.wallet_before, v.amount)

\* the wallet a terminal transition writes: before_wallet - amount + session_wallet
AfterWallet(v, session_wallet) == FAdd(FSub(v.wallet_before, v.amount), session_wallet)

\* the critical section of a terminal transition (finish, crash, cash-out) and
\* the code after it up to _swap_with_embed; S is the sessions as the callback
\* left them before it asked for the lock, B the other suspended tasks
TerminalLocked(t, S, B) ==
    LET u == S[t.sess].views[t.view].user
        data == SetDefault(load_bank(bank), u)
    IN /\ lockHeld' = FALSE
       /\ bank' = IF t.branch = "crash"
                  THEN [data EXCEPT ![u].wallet = t.after_wallet,
                                    ![u].game_active = FALSE,
                                    ![u].losses = @ + 1]
                  ELSE [data EXCEPT ![u].wallet = t.after_wallet,
                                    ![u].game_active = FALSE,
                                    ![u].wins = @ + 1]
       /\ sessions' = IF t.branch = "crash"
                      THEN [S EXCEPT ![t.sess].views[t.view].session_wallet = 0,
                                     ![t.sess].views[t.view].ended = TRUE]
                      ELSE S
       /\ tasks' = Spawn(B, [t EXCEPT !.pc = "swap", !.show = 0 - 1,
                                      !.frame = IF t.branch = "cashout"
                                                THEN Frame("cashout", S[t.sess].views[t.view].position,
                                                           S[t.sess].views[t.view].hazard_pos)
                                                ELSE @])
       /\ UNCHANGED <<active_sessions, sent>>

\* callback t0 reaches "async with lock" as t, with the sessions S it leaves behind
Terminal(t0, t, S) ==
    /\ lockQ' = Enqueue(t)
    /\ IF LockFree
       THEN TerminalLocked(t, S, Drop(tasks, t0))
       ELSE /\ sessions' = S
            /\ tasks' = Drop(tasks, t0)
            /\ UNCHANGED <<bank, lockHeld, active_sessions, sent>>

\* the multiplier left as it was
StepMultiplierStale(v, position) == v.multiplier

\* the multiplier after a step to position: "if 0 <= self.position <
\* len(self.multipliers): self.multiplier = self.multipliers[self.position]"
StepMultiplier(v, position) ==
    IF 0 <= position /\ position < Len(v.multipliers)
    THEN v.multipliers[position + 1] ELSE v.multiplier

\* forward_button_callback from _freeze_message on: the step, and then the
\* finish, the crash or the safe move
ForwardStep(t) ==
    /\ t \in Running /\ t.kind = "forward" /\ t.pc = "freeze"
    /\ UNCHANGED apart
    /\ LET v == ViewOf(t)
           frozen == Show(sessions, t.sess, t.view, FALSE)
           position == v.position + 1
           onLane == 0 <= position /\ position < Len(v.multipliers)
           multiplier == StepMultiplier(v, position)
           session_wallet == IF onLane THEN FMul(v.amount, multiplier)
                             ELSE v.session_wallet
           moved == [v EXCEPT !.position = position, !.multiplier = multiplier,
                              !.session_wallet = session_wallet]
           final == IF v.multipliers # <<>> THEN v.multipliers[Len(v.multipliers)]
                    ELSE multiplier
       IN IF position > v.total_lanes - 1
          THEN Terminal(t, [t EXCEPT !.branch = "finish",
                                  !.frame = Frame("finish", v.total_lanes, v.hazard_pos),
                                  !.after_wallet = AfterWallet(v, FMul(v.amount, final))],
                        [frozen EXCEPT ![t.sess].views[t.view] =
                            [moved EXCEPT !.multiplier = final,
                                          !.session_wallet = FMul(v.amount, final),
                                          !.ended = TRUE]])
          ELSE IF position = v.hazard_pos
          THEN Terminal(t, [t EXCEPT !.branch = "crash",
                                  !.frame = Frame("crash", position, v.hazard_pos),
                                  !.after_wallet = FSub(v.wallet_before, v.amount)],
                        [frozen EXCEPT ![t.sess].views[t.view] = moved])
          ELSE /\ sessions' = [frozen EXCEPT
                    ![t.sess].views = Append([@ EXCEPT ![t.view] = moved],
                        NewView(v.user, v.amount, v.wallet_before, v.wallet_after,
                                multiplier, v.multipliers, v.total_lanes,
                                v.hazard_pos, position))]
               /\ tasks' = Become(tasks, t, [t EXCEPT !.pc = "swap",
                                    !.frame = Frame("safe", position, v.hazard_pos),
                                    !.show = Len(sessions[t.sess].views) + 1])
               /\ UNCHANGED <<bank, lockHeld, lockQ, active_sessions, sent>>

\* stop_button_callback from _freeze_message on: the cash-out
StopStep(t) ==
    /\ t \in Running /\ t.kind = "stop" /\ t.pc = "freeze"
    /\ UNCHANGED apart
    /\ LET v == ViewOf(t)
           frozen == Show(sessions, t.sess, t.view, FALSE)
           multiplier == IF 0 <= v.position /\ v.position < Len(v.multipliers)
                         THEN v.multipliers[v.position + 1] ELSE v.multiplier
           session_wallet == FMul(v.amount, multiplier)
       IN Terminal(t, [t EXCEPT !.branch = "cashout",
                             !.after_wallet = AfterWallet(v, session_wallet)],
                   [frozen EXCEPT ![t.sess].views[t.view] =
                       [v EXCEPT !.ended = TRUE, !.multiplier = multiplier,
                                 !.session_wallet = session_wallet]])

\* the callback returns without touching the registry
SwapKeepsRegistry(t) ==
    /\ t \in Running /\ t.pc = "swap"
    /\ UNCHANGED apart
    /\ sessions' = Show(sessions, t.sess, t.show, t.show > 0)
    /\ tasks' = Drop(tasks, t)
    /\ UNCHANGED <<bank, lockHeld, lockQ, active_sessions, sent>>

\* _swap_with_embed completes: the message carries the new view (none after a
\* terminal transition, which then leaves the registry), and the callback returns
Swap(t) ==
    /\ t \in Running /\ t.pc = "swap"
    /\ UNCHANGED apart
    /\ sessions' = Show(sessions, t.sess, t.show, t.show > 0)
    /\ active_sessions' = IF t.branch # ""
                          THEN active_sessions \ {ViewOf(t).user}
                          ELSE active_sessions
    /\ tasks' = Drop(tasks, t)
    /\ UNCHANGED <<bank, lockHeld, lockQ, sent>>

\* generate_duck_game_image raises. In forward_button_callback the frame is
\* drawn after the step (and, past the last lane, after self.ended = True) and
\* before the lock is asked for: the exception leaves the callback there. In
\* stop_button_callback it is drawn after the critical section and before the
\* registry is touched.
RenderFails(t) ==
    /\ t \in Running
    /\ UNCHANGED apart
    /\ \/ /\ t.kind = "forward" /\ t.pc = "freeze"
          /\ LET v == ViewOf(t)
                 frozen == Show(sessions, t.sess, t.view, FALSE)
                 position == v.position + 1
                 onLane == 0 <= position /\ position < Len(v.multipliers)
                 multiplier == StepMultiplier(v, position)
                 session_wallet == IF onLane THEN FMul(v.amount, multiplier)
                                   ELSE v.session_wallet
                 moved == [v EXCEPT !.position = position, !.multiplier = multiplier,
                                    !.session_wallet = session_wallet]
                 final == IF v.multipliers # <<>> THEN v.multipliers[Len(v.multipliers)]
                          ELSE multiplier
             IN sessions' = [frozen EXCEPT ![t.sess].views[t.view] =
                               IF position > v.total_lanes - 1
                               THEN [moved EXCEPT !.multiplier = final,
                                                  !.session_wallet = FMul(v.amount, final),
                                                  !.ended = TRUE]
                               ELSE moved]
       \/ /\ t.kind = "stop" /\ t.pc = "swap"
          /\ UNCHANGED sessions
    /\ tasks' = Drop(tasks, t)
    /\ UNCHANGED <<bank, lockHeld, lockQ, active_sessions, sent>>

\* the upload of the frame fails inside _swap_with_embed, and so does the
\* edit it falls back to: both exceptions are swallowed, the message stays as
\* it was and the callback goes on
UploadFails(t) ==
    /\ t \in Running /\ t.pc = "swap"
    /\ UNCHANGED apart
    /\ active_sessions' = IF t.branch # ""
                          THEN active_sessions \ {ViewOf(t).user}
                          ELSE active_sessions
    /\ tasks' = Drop(tasks, t)
    /\ UNCHANGED <<bank, lockHeld, lockQ, sessions, sent>>

\* the ledger file becomes unreadable (damaged, or its permissions changed)
FileFault ==
    /\ bank # <<>> /\ NoUser \notin DOMAIN bank
    /\ UNCHANGED apart
    /\ bank' = bank @@ (NoUser :> DefaultRec)
    /\ UNCHANGED <<lockHeld, lockQ, active_sessions, sessions, tasks, sent>>

\* -------------------------------------------------- _atomic_write_json
\* the datasets written: any records of any of the users
Balances == {0, DefaultWallet}
Datasets ==
    UNION {[D -> {[DefaultRec EXCEPT !.wallet = w] : w \in Balances}] : D \in SUBSET Users}

\* open(tmp_path, "w"): the temporary file is created, or emptied if a
\* writer killed earlier left one behind
WriteOpen(data) ==
    /\ tmp' = [exists |-> TRUE, data |-> data, done |-> 0]
    /\ UNCHANGED <<bank, lockHeld, lockQ, active_sessions, sessions, tasks, sent>>
    /\ UNCHANGED <<ret, time, has_announced, announced>>

\* json.dump writing straight into the ledger file
WriteDumpInPlace ==
    /\ tmp.exists /\ tmp.done < Cardinality(DOMAIN tmp.data)
    /\ tmp' = [tmp EXCEPT !.done = @ + 1]
    /\ bank' = Flushed(tmp.data, tmp'.done)
    /\ UNCHANGED <<lockHeld, lockQ, active_sessions, sessions, tasks, sent>>
    /\ UNCHANGED <<ret, time, has_announced, announced>>

\* json.dump(data, f): one more record reaches the temporary file
WriteDump ==
    /\ tmp.exists /\ tmp.done < Cardinality(DOMAIN tmp.data)
    /\ tmp' = [tmp EXCEPT !.done = @ + 1]
    /\ UNCHANGED <<bank, lockHeld, lockQ, active_sessions, sessions, tasks, sent>>
    /\ UNCHANGED <<ret, time, has_announced, announced>>

\* the file is closed and os.replace(tmp_path, path) puts it in the place of
\* the ledger file
WriteReplace ==
    /\ tmp.exists /\ tmp.done = Cardinality(DOMAIN tmp.data)
    /\ bank' = Flushed(tmp.data, tmp.done)
    /\ tmp' = NoFile
    /\ UNCHANGED <<lockHeld, lockQ, active_sessions, sessions, tasks, sent>>
    /\ UNCHANGED <<ret, time, has_announced, announced>>

\* ------------------------------------------------------------- BANK_LOCK
\* the lock is released with tasks waiting: the first waiter is handed it
Resume ==
    /\ ~lockHeld /\ lockQ # <<>>
    /\ UNCHANGED apart
    /\ lockQ' = Tail(lockQ)
    /\ LET t == [Head(lockQ) EXCEPT !.ticket = 0]
       IN CASE t.kind = "duck" -> DuckLocked(t)
            [] t.kind \in {"deposit", "withdraw"} -> TransferLocked(t)
            [] t.kind = "release_me" -> ReleaseMeLocked(t)
            [] t.kind = "release" -> ReleaseLocked(t)
            [] t.kind = "rob" -> RobLocked(t)
            [] t.kind = "balance" -> BalanceLocked(t)
            [] t.kind = "earn" -> EarnLocked(t)
            [] t.kind = "sendmoney" -> SendMoneyLocked(t)
            [] t.kind \in {"forward", "stop"} -> TerminalLocked(t, sessions, tasks)

\* the handler returns with the lock still held
UnlockForgotten(t) ==
    /\ t \in Running /\ t.pc = "send_locked"
    /\ UNCHANGED apart
    /\ tasks' = Drop(tasks, t)
    /\ UNCHANGED <<bank, lockHeld, lockQ, active_sessions, sessions, sent>>

\* a refusal sent inside "async with lock" completes: the handler returns and
\* releases the lock
Unlock(t) ==
    /\ t \in Running /\ t.pc = "send_locked"
    /\ UNCHANGED apart
    /\ lockHeld' = FALSE
    /\ tasks' = Drop(tasks, t)
    /\ UNCHANGED <<bank, lockQ, active_sessions, sessions, sent>>

\* ---------------------------------------------------------- specifications
\* The whole bot for one player, the handlers running one at a time: a
\* command or a click is dispatched when the handler before it has returned.
Next ==
    \/ DuckCommand(1, "100", 1, MaxSessions)
    \/ \E kind \in {"deposit", "withdraw"}, tok \in {"a", "0"} :
          TransferCommand(1, kind, tok, 1)
    \/ ReleaseMeCommand(1, 1)
    \/ \E s \in 1..Len(sessions) : ModeClick(s, 1, "Hard", 1)
    \/ \E t \in Running : ModeCheck(t)
    \/ \E t \in Running : ModeLaunch(t)
    \/ \E s \in 1..Len(sessions), kind \in {"forward", "stop"} :
          ButtonClick(kind, s, 1, 1)
    \/ \E t \in Running : ButtonCheck(t)
    \/ \E t \in Running : ForwardStep(t)
    \/ \E t \in Running : StopStep(t)
    \/ \E t \in Running : Swap(t)
    \/ \E t \in Running : Unlock(t)

Spec == Init /\ [][Next]_vars

\* One game, from the moment "!duck 100" of user 1 has deducted the stake from
\* the default record, with clicks of the owner racing on its buttons.
\* Nothing else takes the lock, so no callback ever waits for it.
InitPlay ==
    LET fresh == SetDefault(<<>>, 1)
        data == DuckWrite(fresh, 1, ParseFloat("100"))
    IN /\ bank = data
       /\ lockHeld = FALSE
       /\ lockQ = <<>>
       /\ active_sessions = {1}
       /\ sessions = <<NewPanel(1, ParseFloat("100"), data[1].wallet)>>
       /\ tasks = EmptyBag
       /\ sent = Message(1, "Choose a mode to begin:")
       /\ tmp = NoFile
       /\ ret = NoCall
       /\ time = Epoch
       /\ has_announced = FALSE
       /\ announced = 0

NextPlay ==
    \/ ModeClick(1, 1, "Hard", PlayTasks)
    \/ \E t \in Running : ModeCheck(t)
    \/ \E t \in Running : ModeLaunch(t)
    \/ \E kind \in {"forward", "stop"} : ButtonClick(kind, 1, 1, PlayTasks)
    \/ \E t \in Running : ButtonCheck(t)
    \/ \E t \in Running : ForwardStep(t)
    \/ \E t \in Running : StopStep(t)
    \/ \E t \in Running : Swap(t)

SpecPlay == InitPlay /\ [][NextPlay]_vars

\* One game in any of the three modes, clicked by its owner and by another
\* user, each click dispatched when the callback before it has returned.
NextModes ==
    \/ \E u \in Users, label \in DOMAIN Modes : ModeClick(1, u, label, 1)
    \/ \E t \in Running : ModeCheck(t)
    \/ \E t \in Running : ModeLaunch(t)
    \/ \E u \in Users, kind \in {"forward", "stop"} : ButtonClick(kind, 1, u, 1)
    \/ \E t \in Running : ButtonCheck(t)
    \/ \E t \in Running : ForwardStep(t)
    \/ \E t \in Running : StopStep(t)
    \/ \E t \in Running : Swap(t)

SpecModes == InitPlay /\ [][NextModes]_vars

\* one mode panel clicked by both users, the clicks overlapping: up to
\* PlayTasks callbacks are in flight at once, and the game that starts is played
NextPanel ==
    \/ \E u \in Users, label \in DOMAIN Modes : ModeClick(1, u, label, PlayTasks)
    \/ \E t \in Running : ModeCheck(t)
    \/ \E t \in Running : ModeLaunch(t)
    \/ \E kind \in {"forward", "stop"} : ButtonClick(kind, 1, 1, 1)
    \/ \E t \in Running : ButtonCheck(t)
    \/ \E t \in Running : ForwardStep(t)
    \/ \E t \in Running : StopStep(t)
    \/ \E t \in Running : Swap(t)

SpecPanel == InitPlay /\ [][NextPanel]_vars

\* the gateway session is re-established again and again: on_ready events, up
\* to ReadyTasks handlers in flight at once, while players ask for balances
NextReady ==
    \/ \E cached \in BOOLEAN : OnReady(cached, ReadyTasks)
    \/ OnReadyAgain
    \/ \E t \in Running, found \in BOOLEAN : Fetched(t, found)
    \/ \E t \in Running, posted \in BOOLEAN : Announced(t, posted)
    \/ \E u \in Users : BalanceCommand(u, ReadyTasks + 1)

SpecReady == Init /\ [][NextReady]_vars

\* both players send !earn, up to EarnTasks commands in flight at once, while
\* the clock moves on in steps around half the cooldown
NextEarn ==
    \/ \E u \in Users : EarnCommand(u, EarnTasks)
    \/ \E d \in {1799, 1800} : Tick(d)
    \/ Resume
    \/ \E t \in Running : Unlock(t)

SpecEarn == Init /\ [][NextEarn]_vars

\* one game played callback by callback, while the player sends commands that
\* overlap the callbacks: up to RegTasks handlers are in flight at once
NextRegistry ==
    \/ DuckCommand(1, "100", RegTasks, RegSessions)
    \/ TransferCommand(1, "deposit", "0", RegTasks)
    \/ \E s \in 1..Len(sessions) : ModeClick(s, 1, "Hard", 1)
    \/ \E t \in Running : ModeCheck(t)
    \/ \E t \in Running : ModeLaunch(t)
    \/ \E s \in 1..Len(sessions), kind \in {"forward", "stop"} : ButtonClick(kind, s, 1, 1)
    \/ \E t \in Running : ButtonCheck(t)
    \/ \E t \in Running : ForwardStep(t)
    \/ \E t \in Running : StopStep(t)
    \/ \E t \in Running : Swap(t)
    \/ Resume
    \/ \E t \in Running : Unlock(t)

SpecRegistry == InitPlay /\ [][NextRegistry]_vars

\* Commands of two users racing for the ledger lock; no mode is ever chosen.
NextCmd ==
    \/ \E tok \in {"100", "h", "abc", "nan"} : DuckCommand(1, tok, CmdTasks, CmdSessions)
    \/ \E u \in Users, tok \in {"a", "0"} : TransferCommand(u, "deposit", tok, CmdTasks)
    \/ Resume
    \/ \E t \in Running : Unlock(t)

SpecCmd == Init /\ [][NextCmd]_vars

\* The two users betting and releasing, an admin among them, with commands
\* waiting for the ledger lock while a refusal is sent inside it.
NextRelease ==
    \/ \E u \in Users : DuckCommand(u, "100", RelTasks, RelSessions)
    \/ \E u \in Users : TransferCommand(u, "deposit", "0", RelTasks)
    \/ \E u \in Users : ReleaseMeCommand(u, RelTasks)
    \/ \E u \in Users, arg \in {"a", "1", "zz"} : ReleaseCommand(u, arg, RelTasks)
    \/ Resume
    \/ \E t \in Running : Unlock(t)

SpecRelease == Init /\ [][NextRelease]_vars

\* Bets and deposits of two users queueing on the ledger lock. Message sends
\* complete and the event loop runs every task that can run: the refusal
\* sent inside the lock returns, and the first waiter of a released lock is
\* resumed.
NextLock ==
    \/ \E tok \in {"100", "2000"} : DuckCommand(1, tok, LockTasks, LockSessions)
    \/ \E u \in Users, tok \in {"a", "0"} : TransferCommand(u, "deposit", tok, LockTasks)
    \/ Resume
    \/ \E t \in Running : Unlock(t)

SpecLock ==
    /\ Init /\ [][NextLock]_vars
    /\ WF_vars(Resume)
    /\ WF_vars(\E t \in Running : Unlock(t))

\* The racing clicks of one game, where every message edit completes.
SpecPlayFair ==
    /\ InitPlay /\ [][NextPlay]_vars
    /\ WF_vars(\E t \in Running : Swap(t))

\* The racing clicks of one game where drawing a frame may raise and an
\* upload may fail.
NextRender ==
    \/ NextPlay
    \/ \E t \in Running : RenderFails(t)
    \/ \E t \in Running : UploadFails(t)

SpecRender == InitPlay /\ [][NextRender]_vars

\* Bets and deposits of the two users over a ledger file that can become
\* unreadable between two commands.
NextStore ==
    \/ \E u \in Users : DuckCommand(u, "100", StoreTasks, StoreSessions)
    \/ \E u \in Users, tok \in {"a", "abc"} : TransferCommand(u, "deposit", tok, StoreTasks)
    \/ FileFault
    \/ Resume
    \/ \E t \in Running : Unlock(t)

SpecStore == Init /\ [][NextStore]_vars

\* _atomic_write_json(path, data) for any dataset, step by step; the process
\* can be killed between two steps, after which the next write starts anew.
NextWrite ==
    \/ \E data \in Datasets : WriteOpen(data)
    \/ WriteDump
    \/ WriteReplace

SpecWrite == Init /\ [][NextWrite]_vars

\* The two users moving money between wallet and bank and robbing each
\* other, one command at a time.
NextMoney ==
    \/ \E u \in Users, tok \in {"999.5", "a"} : TransferCommand(u, "deposit", tok, 1)
    \/ \E u \in Users : TransferCommand(u, "withdraw", "a", 1)
    \/ \E u \in Users, member \in Users, success \in BOOLEAN, steal_pct \in {1, 10},
          cooling \in BOOLEAN : RobCommand(u, member, success, steal_pct, cooling, 1)
    \/ \E t \in Running : Unlock(t)

SpecMoney == Init /\ [][NextMoney]_vars

\* The functions of utils/bank.py called one after the other on the ledger
\* file, with !balance commands between them.
Deltas == {0 - 150000, 0 - 50000, 50000}
Floors == {0, 0 - 50000}
Amounts == {0 - 50000, 0, 50000, 200000}

NextLedger ==
    \/ \E u \in Users : BalanceCommand(u, 1)
    \/ \E u \in Users : Call(get_balances(bank, u))
    \/ \E u \in Users, delta \in Deltas, floor \in Floors : Call(adjust_wallet(bank, u, delta, floor))
    \/ \E u \in Users, delta \in Deltas, floor \in Floors : Call(adjust_bank(bank, u, delta, floor))
    \/ \E u \in Users, amount \in Amounts : Call(move_wallet_to_bank(bank, u, amount))
    \/ \E u \in Users, amount \in Amounts : Call(move_bank_to_wallet(bank, u, amount))
    \/ FileFault

SpecLedger == Init /\ [][NextLedger]_vars

\* The two users moving money between wallet and bank and to each other, one
\* command at a time, with amounts of every kind a user can type.
TransferTokens == {"300", "a", "0", "-50", "2000", "nan", "abc"}

\* no balance of the ledger is above MaxBalance
Capped == \A u \in Records(bank) : bank[u].wallet <= MaxBalance /\ bank[u].bank <= MaxBalance

NextTransfer ==
    \/ \E u \in Users, kind \in {"deposit", "withdraw"}, tok \in TransferTokens :
          TransferCommand(u, kind, tok, 1) /\ Capped'
    \/ \E u \in Users, member \in Users, tok \in TransferTokens :
          SendMoneyCommand(u, member, tok, 1) /\ Capped'
    \/ \E t \in Running : Unlock(t)

SpecTransfer == Init /\ [][NextTransfer]_vars

\* ------------------------------------------------------------------ claims
\* a session is terminal once one of its game views has ended
Ended(s) == \E k \in 1..Len(sessions[s].views) : sessions[s].views[k].ended
\* the sessions of user u that can still be advanced or cashed out
LiveSessions(u) == {s \in 1..Len(sessions) : sessions[s].user = u /\ ~Ended(s)}
\* the user's record as a read inside the lock finds it
RecordOf(u) == SetDefault(bank, u)[u]
\* task t enters the bag in this step
Enters(t) == CopiesIn(t, tasks') > CopiesIn(t, tasks)
\* task t leaves the bag in this step
Leaves(t) == CopiesIn(t, tasks') < CopiesIn(t, tasks)

\* C1: over any interleaving of forward and stop callbacks on a session, at
\* most one terminal ledger mutation is applied for it: the wins and losses
\* of the one game of SpecPlay are incremented at most once in total.
C1_AtMostOneTerminalWrite ==
    bank[1].wins + bank[1].losses <= 1

\* C2: a forward or stop callback that finds its view ended is rejected with
\* "This game is already finished." and returns, changing neither the session
\* nor the ledger nor the registry; and an ended view stays ended.
C2_EndedViewRejects ==
    [][/\ \A t \in Running :
            (t.kind \in {"forward", "stop"} /\ t.pc = "ack" /\ ViewOf(t).ended
                /\ Leaves(t))
            => /\ sent' = Message(t.user, "This game is already finished.")
               /\ BagCardinality(tasks') < BagCardinality(tasks)
               /\ sessions' = sessions
               /\ bank' = bank
               /\ active_sessions' = active_sessions
       /\ \A s \in 1..Len(sessions) : \A k \in 1..Len(sessions[s].views) :
            sessions[s].views[k].ended => sessions'[s].views[k].ended]_vars

\* a click was rejected on an ended view
C2_Witness ==
    /\ sent = Message(1, "This game is already finished.")
    /\ Ended(1)

\* C3: every session creation writes the player's wallet as its value at the
\* moment of the write minus the stake and sets game_active in the same
\* write, touching nothing else of the record and no other player's record.
C3_CreateDeductsStake ==
    [][Len(sessions') > Len(sessions)
       => LET p == sessions'[Len(sessions')]
              u == p.user
          IN /\ DOMAIN bank' = DOMAIN bank \cup {u}
             /\ bank'[u] = [RecordOf(u) EXCEPT !.wallet = FSub(@, p.amount),
                                               !.game_active = TRUE]
             /\ \A q \in DOMAIN bank \ {u} : bank'[q] = bank[q]]_vars

\* a session of user 1 was created while user 2 has a record
C3_Witness ==
    /\ sessions # <<>> /\ 2 \in DOMAIN bank
    /\ bank[1].game_active
    /\ bank[1].wallet = FSub(sessions[1].wallet_before, sessions[1].amount)

\* C4: a cash-out on lane p leaves the wallet at its value right before the
\* cash-out plus stake x multipliers[p], clears game_active and adds one win,
\* whatever ledger commands ran since the session was created.
C4_CashOutCreditsPayout ==
    [][\A t \in BagToSet(tasks') :
         (t.branch = "cashout" /\ t.pc = "swap" /\ Enters(t))
         => LET v == sessions[t.sess].views[t.view]
                payout == FMul(v.amount, v.multipliers[v.position + 1])
            IN /\ bank'[v.user].wallet = FAdd(bank[v.user].wallet, payout)
               /\ ~bank'[v.user].game_active
               /\ bank'[v.user].wins = bank[v.user].wins + 1]_vars

\* C5: a forward step onto the hazard lane ends the session with payout 0,
\* clears game_active, adds one loss and leaves the wallet and the bank as
\* they were right before the step.
C5_CrashKeepsBalances ==
    [][\A t \in BagToSet(tasks') :
         (t.branch = "crash" /\ t.pc = "swap" /\ Enters(t))
         => LET u == sessions[t.sess].views[t.view].user
            IN /\ sessions'[t.sess].views[t.view].ended
               /\ sessions'[t.sess].views[t.view].session_wallet = 0
               /\ ~bank'[u].game_active
               /\ bank'[u].losses = bank[u].losses + 1
               /\ bank'[u].wallet = bank[u].wallet
               /\ bank'[u].bank = bank[u].bank]_vars

\* C6: once a session is terminal the position and the multiplier of its
\* views never change again and no further game view is created for it.
C6_TerminalIsFinal ==
    [][\A s \in 1..Len(sessions) :
         Ended(s)
         => /\ Len(sessions'[s].views) = Len(sessions[s].views)
            /\ \A k \in 1..Len(sessions[s].views) :
                 /\ sessions'[s].views[k].position = sessions[s].views[k].position
                 /\ sessions'[s].views[k].multiplier = sessions[s].views[k].multiplier]_vars

\* the stake of "!duck tok" is no number or not positive, or exceeds the
\* wallet, or the user's game_active is set
InvalidDuck(u, tok) ==
    LET rec == IF u \in DOMAIN bank THEN bank[u] ELSE DefaultRec
        amount == AmountOf(tok, rec.wallet)
    IN \/ amount \in {ValueError, NaN}
       \/ amount <= 0
       \/ (rec.wallet # NaN /\ amount > rec.wallet)
       \/ rec.game_active

\* C7: a !duck whose stake is non-numeric or <= 0, or exceeds the wallet, or
\* that is issued while game_active is set, is rejected: it neither writes the
\* ledger nor joins the registry, and it is not left waiting to do so.
C7_InvalidDuckRejected ==
    [][\A tok \in {"100", "abc", "nan"} :
         (InvalidDuck(1, tok) /\ DuckCommand(1, tok, CmdTasks, CmdSessions))
         => /\ bank' = bank
            /\ active_sessions' = active_sessions
            /\ sessions' = sessions
            /\ lockQ' = lockQ]_vars

\* C8: of two !duck of one player in flight at once, at most one deducts a
\* stake and creates a session (nothing in SpecCmd ends or releases a session).
C8_OneSessionPerPlayer ==
    \A u \in Users : Cardinality({s \in 1..Len(sessions) : sessions[s].user = u}) <= 1

\* C9: a player's persisted game_active is true exactly when a non-terminal
\* session exists for that player.
C9_ActiveIffLiveSession ==
    \A u \in Users : RecordOf(u).game_active <=> LiveSessions(u) # {}

\* C10: each player has at most one non-terminal session at any time.
C10_OneLiveSession ==
    \A u \in Users : Cardinality(LiveSessions(u)) <= 1

\* the views of session s
ViewsOf(s) == {sessions[s].views[k] : k \in 1..Len(sessions[s].views)}
\* forward callback t takes its step now
Steps(t) == t.kind = "forward" /\ t.pc = "freeze" /\ Leaves(t)
\* the step of forward callback t crashes the session and records the loss
Crashes(t) ==
    /\ sessions'[t.sess].views[t.view].ended
    /\ sessions'[t.sess].views[t.view].session_wallet = 0
    /\ bank'[ViewOf(t).user].losses = bank[ViewOf(t).user].losses + 1

C12_HazardOverAllLanes ==
    \A t \in Running :
        (t.kind = "mode" /\ t.pc = "freeze")
        => get_secure_hazard(HazardRange(Modes[t.tok].lanes))
               = 0 .. (Modes[t.tok].lanes - 1)

\* what a finished session is paid: the stake times the last multiplier
FinishPayout(v) == FMul(v.amount, v.multipliers[v.total_lanes])

SafeStep(t) ==
    /\ Steps(t)
    /\ ViewOf(t).position + 1 # ViewOf(t).hazard_pos
    /\ ViewOf(t).position + 1 <= ViewOf(t).total_lanes - 1

\* C15: a forward step onto a safe lane sets the multiplier to
\* multipliers[position], keeps the session in progress (the game goes on in
\* a fresh view on that lane, nothing ends) and writes nothing to the ledger.
C15_SafeStepFrame ==
    [][\A t \in Running :
         SafeStep(t)
         => LET v == ViewOf(t)
                w == sessions'[t.sess].views[t.view]
                n == sessions'[t.sess].views[Len(sessions'[t.sess].views)]
            IN /\ bank' = bank
               /\ Len(sessions'[t.sess].views) = Len(sessions[t.sess].views) + 1
               /\ w.position = v.position + 1
               /\ w.multiplier = v.multipliers[w.position + 1]
               /\ w.ended = v.ended
               /\ n.position = w.position /\ n.multiplier = w.multiplier
               /\ n.hazard_pos = v.hazard_pos /\ ~n.ended]_vars

\* the game stands on a safe lane, in progress, the ledger as the bet left it
C15_Witness ==
    /\ sessions[1].shown > 0 /\ sessions[1].enabled
    /\ LET v == sessions[1].views[sessions[1].shown]
       IN /\ v.position >= 1 /\ ~v.ended
          /\ v.multiplier = v.multipliers[v.position + 1]
    /\ bank[1].game_active /\ bank[1].wins = 0 /\ bank[1].losses = 0
    /\ bank[1].wallet = sessions[1].wallet_after

\* stop callback t applies its cash-out now
CashesOut(t) == t.kind = "stop" /\ t.pc = "freeze" /\ Leaves(t)

\* C16: no cash-out is applied to a session whose position is -1: a view has
\* the stop button only from lane 0 on, and the payout of every cash-out is
\* the stake times the multiplier of the lane the player stands on.
C16_NoCashOutAtStart ==
    [][/\ \A t \in Running :
            CashesOut(t)
            => LET v == ViewOf(t)
               IN /\ v.position >= 0
                  /\ v.position < v.total_lanes
                       => sessions'[t.sess].views[t.view].session_wallet
                              = FMul(v.amount, v.multipliers[v.position + 1])
       /\ \A s \in 1..Len(sessions') : \A k \in 1..Len(sessions'[s].views) :
            sessions'[s].views[k].stop => sessions'[s].views[k].position >= 0]_vars

\* a cash-out was applied on a lane
C16_Witness ==
    /\ bank[1].wins = 1 /\ bank[1].losses = 0 /\ ~bank[1].game_active
    /\ \E v \in ViewsOf(1) :
         /\ v.ended /\ v.stop /\ v.position >= 0 /\ v.position < v.total_lanes
         /\ bank[1].wallet = AfterWallet(v, FMul(v.amount, v.multipliers[v.position + 1]))

\* C17: in every session state the multiplier is multipliers[position] on a
\* lane (0 <= position < laneCount), the last entry of the sequence on the
\* finish (position = laneCount) and 1.0 before the first lane (position -1).
C17_MultiplierFollowsPosition ==
    \A s \in 1..Len(sessions) : \A v \in ViewsOf(s) :
        /\ (0 <= v.position /\ v.position < v.total_lanes)
             => v.multiplier = v.multipliers[v.position + 1]
        /\ v.position = v.total_lanes => v.multiplier = v.multipliers[v.total_lanes]
        /\ v.position = 0 - 1 => v.multiplier = 100

\* the session has stood on its last lane and then on the finish
C17_Witness ==
    /\ \E v \in ViewsOf(1) : v.position = v.total_lanes /\ v.multiplier = 300
    /\ \E v \in ViewsOf(1) : v.position = 2 /\ v.multiplier = 300 /\ ~v.ended

\* C18: in every session state -1 <= position <= laneCount, under any
\* interleaving of forward callbacks on the session.
C18_PositionInRange ==
    \A s \in 1..Len(sessions) : \A v \in ViewsOf(s) :
        0 - 1 <= v.position /\ v.position <= v.total_lanes

\* the players a release command with this argument is aimed at
Targets(arg) == IF arg = "a" THEN Users ELSE {MemberOf[arg]}
\* the ledger and the registry after a release of the players in who:
\* their game_active cleared, nothing else changed, no record created
ReleasedExactly(who) ==
    /\ DOMAIN bank' = DOMAIN bank
    /\ \A u \in DOMAIN bank :
         bank'[u] = [bank[u] EXCEPT !.game_active = IF u \in who THEN FALSE ELSE @]
    /\ active_sessions' = active_sessions \ who
    /\ sessions' = sessions

\* C19: release_me and the admin release clear game_active of the targeted
\* player (of all players for 'a') and remove them from active_sessions,
\* leave every other field of every record unchanged and create no record;
\* a release by a caller without the admin role changes nothing.
C19_ReleaseFrame ==
    [][/\ \A u \in Users :
            (LockFree /\ ReleaseMeCommand(u, RelTasks)) => ReleasedExactly({u})
       /\ \A u \in Admins : \A arg \in {"a", "1"} :
            (LockFree /\ ReleaseCommand(u, arg, RelTasks)) => ReleasedExactly(Targets(arg))
       /\ (~lockHeld /\ lockQ # <<>> /\ lockQ' = Tail(lockQ))
            => /\ Head(lockQ).kind = "release_me" => ReleasedExactly({Head(lockQ).user})
               /\ Head(lockQ).kind = "release" => ReleasedExactly(Targets(Head(lockQ).tok))
       /\ \A u \in Users \ Admins : \A arg \in {"a", "1", "zz"} :
            ReleaseCommand(u, arg, RelTasks)
            => UNCHANGED <<bank, active_sessions, sessions, lockHeld, lockQ, tasks>>]_vars

\* both players had bet and the admin has released them all
C19_Witness ==
    /\ sent = Message(2, "Released all users from any stuck game sessions.")
    /\ DOMAIN bank = Users /\ active_sessions = {}
    /\ \A u \in Users : ~bank[u].game_active /\ bank[u].wallet = 90000

\* callback t was started by a user who does not own the session it runs on
Foreign(t) == t.kind \in {"mode", "forward", "stop"} /\ t.user # sessions[t.sess].user

\* C20: a forward, stop or mode click by a user who is not the session's
\* owner changes neither the session (position, multiplier, ended, started,
\* hazard) nor the ledger: the callback is refused at its first test.
C20_ForeignClickFrame ==
    [][/\ \A t \in Running :
            (Foreign(t) /\ Leaves(t))
            => /\ sessions' = sessions
               /\ bank' = bank
               /\ active_sessions' = active_sessions
               /\ BagCardinality(tasks') < BagCardinality(tasks)
               /\ sent'.to = t.user
       /\ \A t \in BagToSet(tasks') : Foreign(t) => t.pc = "ack"]_vars

\* a stranger was refused on the buttons of a game in progress
C20_Witness ==
    /\ sent = Message(2, "You cannot control this game.")
    /\ sessions[1].started /\ sessions[1].shown > 0
    /\ ~sessions[1].views[sessions[1].shown].ended
    /\ sessions[1].views[sessions[1].shown].position >= 0

\* the callbacks that have rendered their frame and not yet returned
Rendered ==
    {t \in Running : t.pc = "swap"}
        \cup {lockQ[i] : i \in {j \in 1..Len(lockQ) : lockQ[j].branch \in {"finish", "crash"}}}
\* the hazard lane of the session callback t runs on
HazardOf(t) == sessions[t.sess].views[IF t.kind = "mode" THEN t.show ELSE t.view].hazard_pos

\* C21: the hazard lane is passed to the board renderer only on the crash
\* frame, where the duck stands on it; every other frame of a session (first
\* board, safe move, cash-out, finish) is rendered with the sentinel -1.
C21_HazardHiddenUntilCrash ==
    \A t \in Rendered :
        IF t.branch = "crash"
        THEN t.frame.hazard_pos = HazardOf(t) /\ t.frame.position = HazardOf(t)
        ELSE t.frame.hazard_pos = 0 - 1

\* a safe move has been rendered on a lane beyond the first without the hazard
C21_Witness ==
    \E t \in Rendered :
        /\ t.kind = "forward" /\ t.branch = ""
        /\ t.frame.position >= 1 /\ t.frame.hazard_pos = 0 - 1
        /\ HazardOf(t) > t.frame.position

\* what is fixed when a session is created
Fixed(v) == <<v.amount, v.hazard_pos, v.total_lanes, v.multipliers>>

\* C22: the stake, the hazard lane, the lane count and the multipliers of a
\* session are fixed at creation: the hazard is drawn once per session (one
\* mode callback at most gets past the started test, before any view exists),
\* no view ever changes them, and every view the safe moves create carries
\* the stake of the bet and the values of the session's first view.
C22_FixedAtCreation ==
    [][\A s \in 1..Len(sessions') :
         /\ \A k \in 1..Len(sessions[s].views) :
              Fixed(sessions'[s].views[k]) = Fixed(sessions[s].views[k])
         /\ \A k \in 1..Len(sessions'[s].views) :
              /\ Fixed(sessions'[s].views[k]) = Fixed(sessions'[s].views[1])
              /\ sessions'[s].views[k].amount = sessions'[s].amount
         /\ \A t \in BagToSet(tasks') :
              (t.kind = "mode" /\ t.pc = "freeze" /\ t.sess = s)
              => CopiesIn(t, tasks') = 1 /\ sessions'[s].views = <<>>]_vars

\* safe moves have created further views, and a second mode click was refused
C22_Witness ==
    /\ Len(sessions[1].views) >= 3
    /\ sent = Message(1, "This game has already started.")

\* C23: every ledger write is made by the task that holds BANK_LOCK, in the
\* critical section of its load: the dataset changes only in a step that
\* finds the lock free and, if tasks wait for it, is the step of the first
\* waiter; a task suspended inside the lock is the only one in it.
C23_WritesUnderLock ==
    [][/\ bank' # bank
            => /\ ~lockHeld
               /\ lockQ # <<>> => lockQ' = Tail(lockQ)
       /\ lockHeld' <=> (\E t \in BagToSet(tasks') : t.pc = "send_locked")
       /\ \A t \in BagToSet(tasks') :
            t.pc = "send_locked"
            => /\ CopiesIn(t, tasks') = 1
               /\ \A x \in BagToSet(tasks') : x.pc = "send_locked" => x = t]_vars

\* a bet was written by a task that had waited for the lock, others still waiting
C23_Witness ==
    /\ ~lockHeld /\ lockQ # <<>>
    /\ sessions # <<>>
    /\ sent = Message(1, "Choose a mode to begin:")

\* C24: no operation blocks on the ledger for ever: a held BANK_LOCK is
\* released on every path, the refusals sent inside it included, and the
\* first waiter of the lock acquires it; waiters being served in the order
\* they came, every task that requests the lock acquires it.
C24_LockProgress ==
    /\ lockHeld ~> ~lockHeld
    /\ \A b \in {0, 1} :
         (lockQ # <<>> /\ Head(lockQ).ticket = b)
             ~> ~(lockQ # <<>> /\ Head(lockQ).ticket = b)

\* a refusal is being sent inside the lock while two tasks wait for it
C24_Witness ==
    /\ lockHeld /\ Len(lockQ) = 2
    /\ \E t \in Running : t.pc = "send_locked"

\* callback t has committed a terminal ledger write and not yet returned
Committed(t) == t.pc = "swap" /\ t.branch # ""

Decided(v) == v.ended \/ v.position = v.hazard_pos

\* C26: a failure to draw or to upload a frame never affects the ledger: once
\* the callbacks of a game have returned, a session that forward or stop
\* made terminal has its ledger mutation committed (the player's game_active
\* is false again).
C26_LedgerCommitted ==
    (tasks = EmptyBag /\ lockQ = <<>>)
        => \A s \in 1..Len(sessions) :
             (\E v \in ViewsOf(s) : Decided(v))
                 => ~bank[sessions[s].user].game_active

\* the ledger file is missing, or reading it raises
Unreadable(file) == file = <<>> \/ NoUser \in DOMAIN file

\* C27: with the ledger file missing, unreadable or not valid JSON, load_bank
\* gives the empty dataset and the next mutation writes a readable ledger
\* that holds the acting player's record, made from the default one: the
\* stake of 100 taken from the default wallet, or the default wallet
\* deposited whole.
C27_FallbackRecreates ==
    [][(Unreadable(bank) /\ bank' # bank)
          => \E u \in Users :
               /\ DOMAIN bank' = {u}
               /\ \/ bank'[u] = [DefaultRec EXCEPT !.wallet = DefaultWallet - ParseFloat("100"),
                                                   !.game_active = TRUE]
                  \/ bank'[u] = [DefaultRec EXCEPT !.wallet = 0,
                                                   !.bank = DefaultWallet]]_vars

\* user 1 has bet, the file became unreadable, and the ledger now holds the
\* record of user 2 alone, recreated by a command of user 2
C27_Witness ==
    /\ DOMAIN bank = {2}
    /\ \E s \in 1..Len(sessions) : sessions[s].user = 1

\* C28: a ledger record is never deleted, whatever operation follows, a
\* mutation made after a read that fell back to the empty dataset included.
C28_RecordsKept == [][Records(bank) \subseteq Records(bank')]_vars

\* C29: a ledger write dumps the whole dataset into a temporary file and
\* then puts that file in the place of the ledger file: whoever reads the
\* ledger file finds the complete old dataset or the complete new one, never
\* a part of one.
C29_AtomicReplace ==
    /\ [](NoUser \notin DOMAIN bank)
    /\ [][bank' # bank
            => /\ tmp.exists /\ bank' = tmp.data
               /\ ~tmp'.exists]_vars

\* a dataset of two records is half dumped while the ledger file holds an
\* older dataset
C29_Witness ==
    /\ tmp.exists /\ tmp.done = 1 /\ Cardinality(DOMAIN tmp.data) = 2
    /\ bank # <<>> /\ bank # tmp.data

\* C30: after any sequence of commands every persisted record has
\* wallet >= 0 and bank >= 0.
C30_NonNegative ==
    \A u \in Records(bank) : bank[u].wallet >= 0 /\ bank[u].bank >= 0

\* the record the claim gives an unknown player
FirstRecord == [wallet |-> 100000, bank |-> 0, game_active |-> FALSE, last_earn_ts |-> 0,
                last_rob_ts |-> 0, wins |-> 0, losses |-> 0]

\* the balances of player u a reader of the ledger finds, before any default
KnownBalances(u) ==
    IF u \in DOMAIN bank /\ NoUser \notin DOMAIN bank
    THEN <<bank[u].wallet, bank[u].bank>>
    ELSE <<FirstRecord.wallet, FirstRecord.bank>>

\* C31: a read of player u (the balance command, get_balances) finds the
\* default record for a player not in the ledger and persists it in the same
\* step; for a player in the ledger it returns the record and leaves the
\* dataset as it is, so that a repeated read changes nothing.
C31_ReadPersistsDefault ==
    [][\A u \in Users :
         (BalanceCommand(u, 1) \/ Call(get_balances(bank, u)))
         => /\ u \in DOMAIN bank'
            /\ NoUser \notin DOMAIN bank'
            /\ IF u \in DOMAIN bank /\ NoUser \notin DOMAIN bank
               THEN bank' = bank
               ELSE bank'[u] = FirstRecord
            /\ Call(get_balances(bank, u)) => ret'.val = KnownBalances(u)
            /\ KnownBalances(u)' = KnownBalances(u)]_vars

\* get_balances has just created the record of player 2 in a ledger that
\* held player 1 alone
C31_Witness ==
    /\ ret = Returned("get_balances", TRUE, <<100000, 0>>)
    /\ DOMAIN bank = {1, 2}
    /\ bank[2] = FirstRecord /\ bank[1] # FirstRecord

\* the step clears the persisted game_active of player u
Clears(u) ==
    /\ u \in Records(bank) /\ bank[u].game_active
    /\ ~(u \in Records(bank') /\ bank'[u].game_active)

\* the step is a terminal transition of a session of u, or a release of u
EndsOrReleases(u) ==
    \/ \E t \in BagToSet(tasks') :
          Committed(t) /\ Enters(t) /\ sessions[t.sess].user = u
    \/ sent' = Message(u, "You have been released from any stuck game session.")
    \/ sent'.text \in {"Released all users from any stuck game sessions.",
                       "Released from any stuck game session."}

\* C32: sessions do not expire: a persisted game_active = true is cleared
\* only by a terminal transition of a session of that player or by
\* release_me / release; no other command clears it.
C32_NoExpiry == [][\A u \in Users : Clears(u) => EndsOrReleases(u)]_vars

\* player 1 has a session open and has just moved the whole wallet to the
\* bank: the flag is still up
C32_Witness ==
    /\ 1 \in Records(bank) /\ bank[1].game_active
    /\ sent = Message(1, "deposited")

\* the balances of player u before the step, the default ones if u has no record
Before(u) == SetDefault(load_bank(bank), u)[u]

\* C33: deposit and withdraw move the requested amount between the wallet
\* and the bank of the player, whose sum stays; sendmoney moves it from the
\* sender's wallet to the receiver's, whose sum stays; a command with an
\* amount <= 0 or above the source balance changes nothing in the ledger.
C33_TransfersConserve ==
    [][/\ \A u \in Users :
            (bank' # bank /\ sent' \in {Message(u, "deposited"), Message(u, "withdrew")})
            => /\ bank'[u].wallet >= 0 /\ bank'[u].bank >= 0
               /\ bank'[u].wallet + bank'[u].bank = Before(u).wallet + Before(u).bank
               /\ \A v \in Users \ {u} : v \in DOMAIN bank' => v \in DOMAIN bank /\ bank'[v] = bank[v]
       /\ \A u \in Users :
            (bank' # bank /\ sent' = Message(u, "sent"))
            => \E v \in Users \ {u} :
                 /\ bank'[u].wallet >= 0
                 /\ bank'[u].wallet < Before(u).wallet
                 /\ bank'[u].wallet + bank'[v].wallet = Before(u).wallet + Before(v).wallet
                 /\ bank'[u].bank = Before(u).bank /\ bank'[v].bank = Before(v).bank
       /\ bank' # bank
            => \E u \in Users : sent' \in {Message(u, "deposited"), Message(u, "withdrew"),
                                           Message(u, "sent")}]_vars

Launching == {t \in Running : t.kind = "mode" /\ t.pc \in {"freeze", "swap"}}

\* the callback t draws the hazard and builds the game view in this step
Launches(t) == t.kind = "mode" /\ t.pc = "freeze" /\ Leaves(t)

\* the callback t runs its checks in this step
Checks(t) == t.kind = "mode" /\ t.pc = "ack" /\ Leaves(t)

\* C35: a mode panel starts at most one game. Whatever the number and overlap
\* of mode clicks, a hazard is drawn and a game view created only by a click of
\* the owner on a panel that has no game view yet, by the only callback past
\* the checks; a click checked after that is refused and draws nothing.
C35_OneGamePerPanel ==
    [][\A t \in Running :
         /\ Launches(t) =>
              /\ t.user = sessions[t.sess].user
              /\ sessions[t.sess].views = <<>>
              /\ Len(sessions'[t.sess].views) = 1
              /\ Launching = {t} /\ CopiesIn(t, tasks) = 1
         /\ (Checks(t) /\ sessions[t.sess].started) =>
              /\ sessions' = sessions
              /\ sent'.to = t.user
              /\ sent'.text \in {"This game has already started.",
                                 "You cannot choose a mode for someone else's game."}
              /\ Launching' = Launching
         /\ (Checks(t) /\ t.user # sessions[t.sess].user) =>
              /\ sessions' = sessions /\ Launching' = Launching]_vars

\* the owner's second click, in flight while the first one launched the game,
\* has been refused
C35_Witness ==
    /\ sessions[1].views # <<>>
    /\ sent = Message(1, "This game has already started.")
    /\ \E t \in Running : t.kind = "mode" /\ t.pc = "swap"

\* C36: the stake deducted at session creation never exceeds the persisted
\* wallet at the moment of the deduction, also when the wallet shrank after
\* the unlocked pre-check; the deduction never leaves the wallet negative,
\* and a stake the wallet no longer covers is refused with the ledger as it was.
C36_StakeWithinWallet ==
    [][/\ Len(sessions') > Len(sessions)
            => LET p == sessions'[Len(sessions')]
               IN /\ ~FGt(p.amount, RecordOf(p.user).wallet)
                  /\ ~FLt(bank'[p.user].wallet, 0)
       /\ \A u \in Users :
            (sent' # sent /\ sent' = Message(u, "You no longer have enough funds to place that bet."))
            => bank' = bank /\ sessions' = sessions /\ active_sessions' = active_sessions]_vars

\* a !duck 100 that passed the pre-check on a wallet of 1000 found, inside the
\* lock, the wallet emptied by a deposit, and was refused
C36_Witness ==
    /\ sent = Message(1, "You no longer have enough funds to place that bet.")
    /\ bank[1].wallet = 0 /\ bank[1].bank = DefaultWallet
    /\ ~bank[1].game_active

\* no command and no button callback is in flight
Quiescent == tasks = EmptyBag /\ lockQ = <<>> /\ ~lockHeld

\* C37: whenever no command or button callback is in flight, a player is in
\* the active_sessions registry exactly when the player's persisted
\* game_active is true.
C37_RegistryMatchesLedger ==
    Quiescent => \A u \in Users : (u \in active_sessions <=> RecordOf(u).game_active)

\* C38: an earn that succeeds credits exactly EARN_AMOUNT to the player's
\* wallet and records the current time; the ledger changes in no other way,
\* and not before 3600 seconds have passed since the player's recorded earn:
\* an earn handled earlier is refused with the ledger as it was, also when
\* several earn commands are in flight at once.
C38_EarnCooldown ==
    [][/\ bank' # bank =>
            \E u \in Users :
               /\ sent' = Message(u, "you earned")
               /\ time >= Before(u).last_earn_ts + 3600
               /\ bank'[u] = [Before(u) EXCEPT !.wallet = FAdd(@, 2000000),
                                               !.last_earn_ts = time]
               /\ \A v \in Users \ {u} : v \in DOMAIN bank' => v \in DOMAIN bank /\ bank'[v] = bank[v]
       /\ \A u \in Users :
            (sent' # sent /\ sent' = Message(u, "You need to wait before using !earn again."))
            => bank' = bank /\ time < bank[u].last_earn_ts + 3600
       /\ \A u \in Users :
            (sent' # sent /\ sent' = Message(u, "you earned")) => bank' # bank]_vars

\* player 1 earned, was refused 3599 seconds later with two commands in
\* flight, and the ledger still holds the one credit
C38_Witness ==
    /\ sent = Message(1, "You need to wait before using !earn again.")
    /\ time = bank[1].last_earn_ts + 3599
    /\ bank[1].wallet = DefaultWallet + EARN_AMOUNT
    /\ lockQ # <<>>

\* the record of player u a reader of the ledger file starts from
CurrentOf(u) == IF u \in DOMAIN bank /\ NoUser \notin DOMAIN bank THEN bank[u] ELSE FirstRecord

\* C39: adjust_wallet and adjust_bank add delta to the balance and persist it
\* when the result is >= floor, returning (True, new balance); otherwise they
\* return (False, current balance) and leave the persisted dataset as it was.
C39_AdjustRespectsFloor ==
    [][\A u \in Users, delta \in Deltas, floor \in Floors :
         /\ (ret'.fn = "adjust_wallet" /\ Call(adjust_wallet(bank, u, delta, floor))) =>
              LET cur == CurrentOf(u).wallet
              IN IF cur + delta >= floor
                 THEN /\ ret' = [fn |-> "adjust_wallet", ok |-> TRUE, val |-> <<cur + delta>>]
                      /\ bank'[u] = [CurrentOf(u) EXCEPT !.wallet = cur + delta]
                      /\ \A v \in Users \ {u} : CurrentOf(v)' = CurrentOf(v)
                 ELSE /\ ret' = [fn |-> "adjust_wallet", ok |-> FALSE, val |-> <<cur>>]
                      /\ bank' = bank
         /\ (ret'.fn = "adjust_bank" /\ Call(adjust_bank(bank, u, delta, floor))) =>
              LET cur == CurrentOf(u).bank
              IN IF cur + delta >= floor
                 THEN /\ ret' = [fn |-> "adjust_bank", ok |-> TRUE, val |-> <<cur + delta>>]
                      /\ bank'[u] = [CurrentOf(u) EXCEPT !.bank = cur + delta]
                      /\ \A v \in Users \ {u} : CurrentOf(v)' = CurrentOf(v)
                 ELSE /\ ret' = [fn |-> "adjust_bank", ok |-> FALSE, val |-> <<cur>>]
                      /\ bank' = bank]_vars

\* adjust_bank has just refused to take player 2, who has no record yet, below
\* the floor, after adjust_wallet raised the wallet of player 1
C39_Witness ==
    /\ ret = [fn |-> "adjust_bank", ok |-> FALSE, val |-> <<0>>]
    /\ 1 \in DOMAIN bank /\ bank[1].wallet = 150000
    /\ 2 \notin DOMAIN bank

\* C40: the online announcement is sent at most once in the lifetime of the
\* process, over any sequence or overlap of on_ready events.
C40_AnnouncedOnce == announced <= 1
====
